---- MODULE Spec2Model ----
(***************************************************************************)
(* Model of the proposal registry canister of src/src/index.ts: one        *)
(* StableBTreeMap of Proposal records keyed by id, and the exported        *)
(* query/update functions acting on it, one call at a time.                *)
(***************************************************************************)
EXTENDS Integers, Sequences, FiniteSets, TLC

VARIABLES proposalStorage, now, voted, lastCall, lastResult

vars == <<proposalStorage, now, voted, lastCall, lastResult>>

(* ---- bounds ---- *)
\* largest number of votes the stored proposals hold together
MaxVotes == 2

(* ---- input domains ---- *)
\* callers (Principal values) and the text Principal.toString() gives them
Principals == 1..2
PrincipalText == <<"aaaaa-aa", "2vxsx-fae">>
\* the strings uuidv4() can return, in key order of the map
IdOrder == <<"uuid-1", "uuid-2">>
Ids == {IdOrder[i] : i \in 1..Len(IdOrder)}
\* the ProposalPayload values callers send
Payloads == {[title |-> "T", description |-> "D"],
             [title |-> "", description |-> "D"],
             [title |-> "T", description |-> ""]}
\* the values ic.time() takes
Times == {0, 1}

NoId == ""
NoCaller == 0

(* ---- helpers ---- *)
\* Principal.toString()
toString(p) == PrincipalText[p]

\* JavaScript !s for a string s
Falsy(s) == s = ""

\* Opt.None / Opt.Some(x)
None == <<>>
Some(x) == <<x>>

\* Array.prototype.includes
includes(seq, x) == \E i \in 1..Len(seq) : seq[i] = x

\* Result.Ok / Result.Err
Ok(v) == [kind |-> "Ok", msg |-> <<>>, value |-> v]
Err(m) == [kind |-> "Err", msg |-> m, value |-> <<>>]

\* StableBTreeMap.get / insert / remove / values
get(s, id) == IF id \in DOMAIN s THEN Some(s[id]) ELSE None
insert(s, id, p) == [k \in DOMAIN s \cup {id} |-> IF k = id THEN p ELSE s[k]]
remove(s, id) == [k \in DOMAIN s \ {id} |-> s[k]]
RECURSIVE valuesFrom(_, _)
valuesFrom(s, i) ==
    IF i > Len(IdOrder) THEN <<>>
    ELSE (IF IdOrder[i] \in DOMAIN s THEN <<s[IdOrder[i]]>> ELSE <<>>)
         \o valuesFrom(s, i + 1)
values(s) == valuesFrom(s, 1)

\* the error strings of the exported functions
MsgGetNotFound(id) == <<"A proposal with id=", id, " not found">>
MsgMissing == <<"Missing required fields">>
MsgOwnerVote == <<"Owners cannot vote for their own proposal">>
MsgAlreadyVoted == <<"Already voted">>
MsgUpdateNotFound(id) ==
    <<"Couldn't update a proposal with id=", id, ". Proposal not found">>
MsgOnlyOwner == <<"Only the owner of a proposal can update it">>
MsgDeleteNotFound(id) ==
    <<"Couldn't delete a proposal with id=", id, ". Proposal not found.">>

Call(op, caller, id, title, description) ==
    [op |-> op, caller |-> caller, id |-> id,
     title |-> title, description |-> description]

(* ---- state after construction ---- *)
\* voted is a history variable: the <<id, caller text>> pairs of the
\* successful voteYes / voteNo calls made on the proposal now stored under id
Init ==
    /\ proposalStorage = [k \in {} |-> {}]
    /\ now \in Times
    /\ voted = {}
    /\ lastCall = Call("none", NoCaller, NoId, "", "")
    /\ lastResult = Ok(<<>>)

\* the pairs of voted that belong to other ids than id
votedElsewhere(id) == {v \in voted : v[1] # id}

(* ---- the exported functions ---- *)
\* ic.time(): the canister clock never goes backwards; a call that returns
\* an error before reading the clock leaves it alone
ClockReads(err) == IF err # <<>> THEN {now} ELSE {t \in Times : t >= now}

getProposals ==
    /\ lastCall' = Call("getProposals", NoCaller, NoId, "", "")
    /\ lastResult' = Ok(values(proposalStorage))
    /\ UNCHANGED <<proposalStorage, now, voted>>

getProposalResultFirst(s, id) ==
    IF get(s, id) # None THEN Ok(<<values(s)[1]>>) ELSE Err(MsgGetNotFound(id))
getProposalResult(s, id) ==
    IF get(s, id) # None THEN Ok(get(s, id)) ELSE Err(MsgGetNotFound(id))

getProposal ==
    \E id \in Ids :
        /\ lastCall' = Call("getProposal", NoCaller, id, "", "")
        /\ lastResult' = getProposalResult(proposalStorage, id)
        /\ UNCHANGED <<proposalStorage, now, voted>>

\* the record createProposal builds
NewProposalStamped(caller, id, title, description, t) ==
    [owner |-> caller, id |-> id, title |-> title,
     description |-> description, voters |-> <<>>,
     yesVotes |-> 0, noVotes |-> 0,
     created_at |-> t, updated_at |-> Some(t)]
NewProposal(caller, id, title, description, t) ==
    [owner |-> caller, id |-> id, title |-> title,
     description |-> description, voters |-> <<>>,
     yesVotes |-> 0, noVotes |-> 0,
     created_at |-> t, updated_at |-> None]

\* uuidv4() over the Math.random based getRandomValues: any id
uuidv4 == Ids

\* a call that returns an error before calling uuidv4() draws no id
IdReads(err) == IF err # <<>> THEN {NoId} ELSE uuidv4

\* the input validation of createProposal
createErrorTitleOnly(title, description) ==
    IF Falsy(title) THEN MsgMissing ELSE <<>>
createError(title, description) ==
    IF Falsy(title) \/ Falsy(description) THEN MsgMissing ELSE <<>>

createResult(caller, id, title, description, t) ==
    IF createError(title, description) # <<>>
    THEN Err(createError(title, description))
    ELSE Ok(<<NewProposal(caller, id, title, description, t)>>)

createStoreBeforeValidation(s, caller, id, title, description, t) ==
    insert(s, id, NewProposal(caller, id, title, description, t))
createStore(s, caller, id, title, description, t) ==
    IF createError(title, description) # <<>> THEN s
    ELSE insert(s, NewProposal(caller, id, title, description, t).id,
                NewProposal(caller, id, title, description, t))

createProposal ==
    \E caller \in Principals, payload \in Payloads :
        LET title == payload.title
            description == payload.description IN
        \E id \in IdReads(createError(title, description)),
           t \in ClockReads(createError(title, description)) :
            /\ now' = t
            /\ lastCall' = Call("createProposal", caller, NoId, title, description)
            /\ proposalStorage' =
                   createStore(proposalStorage, caller, id, title, description, t)
            /\ lastResult' = createResult(caller, id, title, description, t)
            /\ voted' = IF createError(title, description) # <<>>
                        THEN voted ELSE votedElsewhere(id)

\* the checks both vote functions make before storing
voteErrorNoOwnerCheck(s, id, caller) ==
    IF get(s, id) = None THEN MsgUpdateNotFound(id)
    ELSE IF includes(s[id].voters, toString(caller)) THEN MsgAlreadyVoted
    ELSE <<>>
voteError(s, id, caller) ==
    IF get(s, id) = None THEN MsgUpdateNotFound(id)
    ELSE IF toString(s[id].owner) = toString(caller) THEN MsgOwnerVote
    ELSE IF includes(s[id].voters, toString(caller)) THEN MsgAlreadyVoted
    ELSE <<>>

\* the record voteYes stores: { ...proposal, yesVotes + 1, updated_at }
voteYesRecordRestamped(proposal, caller, t) ==
    [proposal EXCEPT !.yesVotes = proposal.yesVotes + 1, !.created_at = t,
                     !.updated_at = Some(t)]
voteYesRecord(proposal, caller, t) ==
    [proposal EXCEPT !.yesVotes = proposal.yesVotes + 1, !.updated_at = Some(t)]
\* the record voteNo stores: { ...proposal, noVotes + 1, updated_at }
voteNoRecordUnstamped(proposal, caller, t) ==
    [proposal EXCEPT !.noVotes = proposal.noVotes + 1]
voteNoRecordAppendsOwner(proposal, caller, t) ==
    [proposal EXCEPT !.voters = Append(proposal.voters, toString(proposal.owner)),
                     !.noVotes = proposal.noVotes + 1, !.updated_at = Some(t)]
voteNoRecord(proposal, caller, t) ==
    [proposal EXCEPT !.noVotes = proposal.noVotes + 1, !.updated_at = Some(t)]

voteYesStore(s, id, caller, t) ==
    IF voteError(s, id, caller) # <<>> THEN s
    ELSE insert(s, s[id].id, voteYesRecord(s[id], caller, t))
voteYesResult(s, id, caller, t) ==
    IF voteError(s, id, caller) # <<>> THEN Err(voteError(s, id, caller))
    ELSE Ok(<<voteYesRecord(s[id], caller, t)>>)

voteNoStore(s, id, caller, t) ==
    IF voteError(s, id, caller) # <<>> THEN s
    ELSE insert(s, s[id].id, voteNoRecord(s[id], caller, t))
voteNoResult(s, id, caller, t) ==
    IF voteError(s, id, caller) # <<>> THEN Err(voteError(s, id, caller))
    ELSE Ok(<<voteNoRecord(s[id], caller, t)>>)

\* a vote is modelled while the votes stored stay within MaxVotes
RECURSIVE votesFrom(_, _)
votesFrom(s, i) ==
    IF i > Len(IdOrder) THEN 0
    ELSE (IF IdOrder[i] \in DOMAIN s
          THEN s[IdOrder[i]].yesVotes + s[IdOrder[i]].noVotes ELSE 0)
         + votesFrom(s, i + 1)
VoteWithinBound(s, id, caller) ==
    voteError(s, id, caller) = <<>> => votesFrom(s, 1) < MaxVotes

voteYes ==
    \E caller \in Principals, id \in Ids :
        \E t \in ClockReads(voteError(proposalStorage, id, caller)) :
            /\ VoteWithinBound(proposalStorage, id, caller)
            /\ now' = t
            /\ lastCall' = Call("voteYes", caller, id, "", "")
            /\ proposalStorage' = voteYesStore(proposalStorage, id, caller, t)
            /\ lastResult' = voteYesResult(proposalStorage, id, caller, t)
            /\ voted' = IF voteError(proposalStorage, id, caller) # <<>>
                        THEN voted ELSE voted \cup {<<id, toString(caller)>>}

voteNo ==
    \E caller \in Principals, id \in Ids :
        \E t \in ClockReads(voteError(proposalStorage, id, caller)) :
            /\ VoteWithinBound(proposalStorage, id, caller)
            /\ now' = t
            /\ lastCall' = Call("voteNo", caller, id, "", "")
            /\ proposalStorage' = voteNoStore(proposalStorage, id, caller, t)
            /\ lastResult' = voteNoResult(proposalStorage, id, caller, t)
            /\ voted' = IF voteError(proposalStorage, id, caller) # <<>>
                        THEN voted ELSE voted \cup {<<id, toString(caller)>>}

\* the record updateProposal stores: { ...proposal, ...payload, updated_at }
updateRecordPayloadFirst(proposal, title, description, t) ==
    [proposal EXCEPT !.updated_at = Some(t)]
updateRecord(proposal, title, description, t) ==
    [proposal EXCEPT !.title = title, !.description = description,
                     !.updated_at = Some(t)]

\* the checks updateProposal makes before storing
updateErrorNoOwnerCheck(s, id, caller) ==
    IF get(s, id) = None THEN MsgUpdateNotFound(id) ELSE <<>>
updateError(s, id, caller) ==
    IF get(s, id) = None THEN MsgUpdateNotFound(id)
    ELSE IF toString(s[id].owner) # toString(caller) THEN MsgOnlyOwner
    ELSE <<>>

updateStore(s, id, caller, title, description, t) ==
    IF updateError(s, id, caller) # <<>> THEN s
    ELSE insert(s, s[id].id, updateRecord(s[id], title, description, t))
updateResult(s, id, caller, title, description, t) ==
    IF updateError(s, id, caller) # <<>> THEN Err(updateError(s, id, caller))
    ELSE Ok(<<updateRecord(s[id], title, description, t)>>)

updateProposal ==
    \E caller \in Principals, id \in Ids, payload \in Payloads :
        LET title == payload.title
            description == payload.description IN
        \E t \in ClockReads(updateError(proposalStorage, id, caller)) :
            /\ now' = t
            /\ lastCall' = Call("updateProposal", caller, id, title, description)
            /\ proposalStorage' =
                   updateStore(proposalStorage, id, caller, title, description, t)
            /\ lastResult' =
                   updateResult(proposalStorage, id, caller, title, description, t)
            /\ UNCHANGED voted

\* StableBTreeMap.remove: what stays in the map, and what is returned
deleteStoreKeeps(s, id) == s
deleteStore(s, id) == remove(s, id)
deleteResult(s, id) ==
    IF get(s, id) # None THEN Ok(get(s, id)) ELSE Err(MsgDeleteNotFound(id))

deleteProposalOwnerOnly ==
    \E caller \in Principals, id \in Ids :
        LET refused == /\ id \in DOMAIN proposalStorage
                       /\ toString(proposalStorage[id].owner) # toString(caller) IN
        /\ lastCall' = Call("deleteProposal", caller, id, "", "")
        /\ proposalStorage' =
               IF refused THEN proposalStorage ELSE deleteStore(proposalStorage, id)
        /\ lastResult' =
               IF refused THEN Err(MsgOnlyOwner) ELSE deleteResult(proposalStorage, id)
        /\ voted' = IF refused THEN voted ELSE votedElsewhere(id)
        /\ UNCHANGED now
deleteProposal ==
    \E caller \in Principals, id \in Ids :
        /\ lastCall' = Call("deleteProposal", caller, id, "", "")
        /\ proposalStorage' = deleteStore(proposalStorage, id)
        /\ lastResult' = deleteResult(proposalStorage, id)
        /\ voted' = votedElsewhere(id)
        /\ UNCHANGED now

Next ==
    \/ getProposals
    \/ getProposal
    \/ createProposal
    \/ voteYes
    \/ voteNo
    \/ updateProposal
    \/ deleteProposal

Spec == Init /\ [][Next]_vars

(* ---- properties ---- *)
Votes == {"voteYes", "voteNo"}
Range(seq) == {seq[i] : i \in 1..Len(seq)}

\* C1: every stored proposal has yesVotes + noVotes equal to the number of
\* elements of its voters.
C1_VotesEqualVoters ==
    \A id \in DOMAIN proposalStorage :
        proposalStorage[id].yesVotes + proposalStorage[id].noVotes
            = Len(proposalStorage[id].voters)

\* C2: a voteYes or voteNo by a caller who has already voted successfully on
\* the proposal fails with "Already voted" and leaves the store as it was.
C2_SingleVotePerUser ==
    [][(/\ lastCall'.op \in Votes
        /\ <<lastCall'.id, toString(lastCall'.caller)>> \in voted)
       => (/\ lastResult' = Err(MsgAlreadyVoted)
           /\ proposalStorage' = proposalStorage)]_vars

\* C3: a successful voteYes (voteNo) stores and returns the previous record
\* with the caller added to voters, yesVotes (noVotes) raised by exactly 1,
\* the other counter unchanged and updated_at present.
C3_VoteEffect ==
    [][(lastCall'.op \in Votes /\ lastResult'.kind = "Ok")
       => LET id == lastCall'.id
              old == proposalStorage[id]
              new == proposalStorage'[id] IN
          /\ lastResult'.value = <<new>>
          /\ Range(new.voters) = Range(old.voters) \cup {toString(lastCall'.caller)}
          /\ Len(new.voters) = Len(old.voters) + 1
          /\ new.yesVotes = old.yesVotes + (IF lastCall'.op = "voteYes" THEN 1 ELSE 0)
          /\ new.noVotes = old.noVotes + (IF lastCall'.op = "voteNo" THEN 1 ELSE 0)
          /\ new.updated_at # None]_vars

\* C4: voteYes or voteNo called by the owner of a stored proposal fails with
\* "Owners cannot vote for their own proposal" and leaves the store as it was,
\* whatever votes the proposal holds.
C4_OwnerCannotVote ==
    [][(/\ lastCall'.op \in Votes
        /\ lastCall'.id \in DOMAIN proposalStorage
        /\ proposalStorage[lastCall'.id].owner = lastCall'.caller)
       => (/\ lastResult' = Err(MsgOwnerVote)
           /\ proposalStorage' = proposalStorage)]_vars

\* C4 witness: the owner's vote on a proposal that already holds votes was
\* refused.
C4_Witness ==
    /\ lastCall.op \in Votes
    /\ lastCall.id \in DOMAIN proposalStorage
    /\ proposalStorage[lastCall.id].owner = lastCall.caller
    /\ proposalStorage[lastCall.id].yesVotes + proposalStorage[lastCall.id].noVotes > 0
    /\ lastResult = Err(MsgOwnerVote)

\* C5: a call of any operation that returns an error leaves the whole
\* proposal store exactly as it was before the call.
C5_ErrorLeavesStore ==
    [][lastResult'.kind = "Err" => proposalStorage' = proposalStorage]_vars

\* C5 witness: a createProposal call returned an error while a proposal was
\* stored.
C5_Witness ==
    /\ lastCall.op = "createProposal"
    /\ lastResult.kind = "Err"
    /\ DOMAIN proposalStorage # {}

\* C6: createProposal with a non-empty title and description succeeds; the
\* returned record has owner = caller, the given title and description, no
\* voters, zero votes and no updated_at; it is stored under its id, and that
\* is the only record the call writes.
C6_CreateStoresRecord ==
    [][(/\ lastCall'.op = "createProposal"
        /\ ~Falsy(lastCall'.title)
        /\ ~Falsy(lastCall'.description))
       => /\ lastResult'.kind = "Ok"
          /\ Len(lastResult'.value) = 1
          /\ LET new == lastResult'.value[1] IN
             /\ new.owner = lastCall'.caller
             /\ new.title = lastCall'.title
             /\ new.description = lastCall'.description
             /\ new.voters = <<>>
             /\ new.yesVotes = 0
             /\ new.noVotes = 0
             /\ new.updated_at = None
             /\ DOMAIN proposalStorage' = DOMAIN proposalStorage \cup {new.id}
             /\ proposalStorage'[new.id] = new
             /\ \A k \in DOMAIN proposalStorage \ {new.id} :
                    proposalStorage'[k] = proposalStorage[k]]_vars

\* C6 witness: a createProposal call succeeded and its record is stored next
\* to another proposal.
C6_Witness ==
    /\ lastCall.op = "createProposal"
    /\ lastResult.kind = "Ok"
    /\ lastResult.value[1].id \in DOMAIN proposalStorage
    /\ proposalStorage[lastResult.value[1].id] = lastResult.value[1]
    /\ Cardinality(DOMAIN proposalStorage) = 2

\* C7: createProposal with an empty title or an empty description fails
\* with "Missing required fields" and the store is the same before and after.
C7_CreateRejectsEmpty ==
    [][(/\ lastCall'.op = "createProposal"
        /\ (Falsy(lastCall'.title) \/ Falsy(lastCall'.description)))
       => (/\ lastResult' = Err(MsgMissing)
           /\ proposalStorage' = proposalStorage)]_vars

\* C7 witness: a createProposal call with a title and an empty description
\* was refused.
C7_Witness ==
    /\ lastCall.op = "createProposal"
    /\ ~Falsy(lastCall.title)
    /\ Falsy(lastCall.description)
    /\ lastResult = Err(MsgMissing)

\* C8: updateProposal on a stored proposal by a caller other than its owner
\* fails with "Only the owner of a proposal can update it" and leaves the
\* store as it was.
C8_UpdateByNonOwnerRefused ==
    [][(/\ lastCall'.op = "updateProposal"
        /\ lastCall'.id \in DOMAIN proposalStorage
        /\ proposalStorage[lastCall'.id].owner # lastCall'.caller)
       => (/\ lastResult' = Err(MsgOnlyOwner)
           /\ proposalStorage' = proposalStorage)]_vars

\* C8 witness: a non-owner's updateProposal with another title than the
\* stored one was refused.
C8_Witness ==
    /\ lastCall.op = "updateProposal"
    /\ lastCall.id \in DOMAIN proposalStorage
    /\ proposalStorage[lastCall.id].owner # lastCall.caller
    /\ proposalStorage[lastCall.id].title # lastCall.title
    /\ lastResult = Err(MsgOnlyOwner)

\* C9: updateProposal on a stored proposal by its owner succeeds; the stored
\* and returned record has the supplied title and description and an
\* updated_at, and the id, owner, voters, yesVotes, noVotes and created_at it
\* had before.
C9_UpdateByOwner ==
    [][(/\ lastCall'.op = "updateProposal"
        /\ lastCall'.id \in DOMAIN proposalStorage
        /\ proposalStorage[lastCall'.id].owner = lastCall'.caller)
       => /\ lastResult'.kind = "Ok"
          /\ lastCall'.id \in DOMAIN proposalStorage'
          /\ LET old == proposalStorage[lastCall'.id]
                 new == proposalStorage'[lastCall'.id] IN
             /\ lastResult'.value = <<new>>
             /\ new.title = lastCall'.title
             /\ new.description = lastCall'.description
             /\ new.updated_at # None
             /\ new.id = old.id
             /\ new.owner = old.owner
             /\ new.voters = old.voters
             /\ new.yesVotes = old.yesVotes
             /\ new.noVotes = old.noVotes
             /\ new.created_at = old.created_at]_vars

\* C9 witness: the owner's updateProposal succeeded on a proposal that holds
\* votes and was created at an earlier time.
C9_Witness ==
    /\ lastCall.op = "updateProposal"
    /\ lastResult.kind = "Ok"
    /\ lastCall.id \in DOMAIN proposalStorage
    /\ proposalStorage[lastCall.id].title = lastCall.title
    /\ proposalStorage[lastCall.id].yesVotes + proposalStorage[lastCall.id].noVotes > 0
    /\ proposalStorage[lastCall.id].created_at = 0
    /\ proposalStorage[lastCall.id].updated_at = Some(1)

\* C10: every stored proposal has a non-empty title and a non-empty
\* description (updateProposal rejects an empty one as createProposal does).
C10_StoredFieldsNonEmpty ==
    \A id \in DOMAIN proposalStorage :
        /\ ~Falsy(proposalStorage[id].title)
        /\ ~Falsy(proposalStorage[id].description)

\* the error a call on an id that is not stored returns
NotFoundOf(op, id) ==
    IF op = "getProposal" THEN Err(MsgGetNotFound(id))
    ELSE IF op = "deleteProposal" THEN Err(MsgDeleteNotFound(id))
    ELSE Err(MsgUpdateNotFound(id))
ById == {"getProposal", "voteYes", "voteNo", "updateProposal", "deleteProposal"}

\* C11: deleteProposal on a stored id returns the record and removes it, and
\* for as long as the id is not stored getProposal, voteYes, voteNo,
\* updateProposal and deleteProposal on it fail with their not-found error and
\* change nothing; in particular deleteProposal on a missing id does.
C11_DeleteThenNotFound ==
    [][/\ (lastCall'.op = "deleteProposal" /\ lastCall'.id \in DOMAIN proposalStorage)
          => /\ lastResult' = Ok(<<proposalStorage[lastCall'.id]>>)
             /\ lastCall'.id \notin DOMAIN proposalStorage'
       /\ (lastCall'.op \in ById /\ lastCall'.id \notin DOMAIN proposalStorage)
          => /\ lastResult' = NotFoundOf(lastCall'.op, lastCall'.id)
             /\ proposalStorage' = proposalStorage
       /\ (/\ lastCall.op = "deleteProposal"
           /\ lastResult.kind = "Ok"
           /\ lastCall'.op \in ById
           /\ lastCall'.id = lastCall.id)
          => lastResult' = NotFoundOf(lastCall'.op, lastCall'.id)]_vars

\* C11 witness: a deleteProposal call returned the record it removed, and the
\* other proposal is still stored.
C11_Witness ==
    /\ lastCall.op = "deleteProposal"
    /\ lastResult.kind = "Ok"
    /\ lastResult.value[1].id = lastCall.id
    /\ lastCall.id \notin DOMAIN proposalStorage
    /\ DOMAIN proposalStorage # {}

\* C12: deleteProposal on a stored id succeeds and removes the proposal also
\* when the caller is not its owner, whatever votes it holds.
C12_DeleteByAnyCaller ==
    [][(/\ lastCall'.op = "deleteProposal"
        /\ lastCall'.id \in DOMAIN proposalStorage
        /\ proposalStorage[lastCall'.id].owner # lastCall'.caller)
       => /\ lastResult'.kind = "Ok"
          /\ lastCall'.id \notin DOMAIN proposalStorage']_vars

\* C12 witness: a caller other than the owner deleted a proposal that held
\* votes.
C12_Witness ==
    /\ lastCall.op = "deleteProposal"
    /\ lastResult.kind = "Ok"
    /\ lastResult.value[1].owner # lastCall.caller
    /\ lastResult.value[1].yesVotes + lastResult.value[1].noVotes > 0
    /\ lastCall.id \notin DOMAIN proposalStorage

Mutations == {"voteYes", "voteNo", "updateProposal"}

\* C13: a voteYes, voteNo or updateProposal call keeps every stored proposal
\* stored with the owner, id and created_at it had, and the id field of a
\* stored record equals the key it is stored under.
C13_IdentityFieldsFixed ==
    [][/\ lastCall'.op \in Mutations
          => \A k \in DOMAIN proposalStorage :
                 /\ k \in DOMAIN proposalStorage'
                 /\ proposalStorage'[k].owner = proposalStorage[k].owner
                 /\ proposalStorage'[k].id = proposalStorage[k].id
                 /\ proposalStorage'[k].created_at = proposalStorage[k].created_at
       /\ \A k \in DOMAIN proposalStorage' : proposalStorage'[k].id = k]_vars

\* C13 witness: a vote succeeded, at a later time than its creation, on a
\* proposal whose owner had edited it.
C13_Witness ==
    /\ lastCall.op \in Votes
    /\ lastResult.kind = "Ok"
    /\ lastCall.id \in DOMAIN proposalStorage
    /\ proposalStorage[lastCall.id].id = lastCall.id
    /\ proposalStorage[lastCall.id].owner # lastCall.caller
    /\ Falsy(proposalStorage[lastCall.id].description)
    /\ proposalStorage[lastCall.id].created_at = 0
    /\ proposalStorage[lastCall.id].updated_at = Some(1)

C15_QueriesReadStore ==
    [][/\ lastCall'.op = "getProposal"
          => /\ proposalStorage' = proposalStorage
             /\ lastResult' = IF lastCall'.id \in DOMAIN proposalStorage
                              THEN Ok(<<proposalStorage[lastCall'.id]>>)
                              ELSE Err(MsgGetNotFound(lastCall'.id))
       /\ lastCall'.op = "getProposals"
          => /\ proposalStorage' = proposalStorage
             /\ lastResult'.kind = "Ok"
             /\ Len(lastResult'.value) = Cardinality(DOMAIN proposalStorage)
             /\ Range(lastResult'.value)
                    = {proposalStorage[k] : k \in DOMAIN proposalStorage}
       /\ (/\ lastCall'.op \in Mutations \cup {"createProposal"}
           /\ lastResult'.kind = "Ok")
          => /\ lastResult'.value[1].id \in DOMAIN proposalStorage'
             /\ proposalStorage'[lastResult'.value[1].id] = lastResult'.value[1]]_vars

\* C15 witness: getProposal returned the stored version of the second of two
\* proposals, one that holds a vote.
C15_Witness ==
    /\ lastCall.op = "getProposal"
    /\ lastCall.id = IdOrder[2]
    /\ Cardinality(DOMAIN proposalStorage) = 2
    /\ lastResult = Ok(<<proposalStorage[lastCall.id]>>)
    /\ proposalStorage[lastCall.id].yesVotes > 0
    /\ proposalStorage[IdOrder[1]] # proposalStorage[lastCall.id]

\* the id whose proposal a step ends: the one deleteProposal names, or the one
\* a successful createProposal stores its new proposal under
Replaced ==
    IF lastCall'.op = "deleteProposal" THEN {lastCall'.id}
    ELSE IF lastCall'.op = "createProposal" /\ lastResult'.kind = "Ok"
         THEN {lastResult'.value[1].id}
    ELSE {}

\* the prefix relation of two voters lists
IsPrefix(a, b) ==
    /\ Len(a) <= Len(b)
    /\ \A i \in 1..Len(a) : a[i] = b[i]

\* C16: the voters of a stored proposal holds no identity twice and not the
\* owner's, and no call but one that deletes the proposal (or stores a new
\* one under its id) removes an identity from it.
C16_VotersUniqueAppendOnly ==
    [][/\ \A k \in DOMAIN proposalStorage' :
              LET v == proposalStorage'[k].voters IN
              /\ \A i, j \in 1..Len(v) : v[i] = v[j] => i = j
              /\ ~includes(v, toString(proposalStorage'[k].owner))
       /\ \A k \in DOMAIN proposalStorage \ Replaced :
              /\ k \in DOMAIN proposalStorage'
              /\ IsPrefix(proposalStorage[k].voters,
                          proposalStorage'[k].voters)]_vars

\* C16 witness: a non-owner's vote succeeded and the proposal's voters still
\* holds neither a repeated identity nor the owner's.
C16_Witness ==
    /\ lastCall.op = "voteNo"
    /\ lastResult.kind = "Ok"
    /\ lastCall.id \in DOMAIN proposalStorage
    /\ <<lastCall.id, toString(lastCall.caller)>> \in voted
    /\ ~includes(proposalStorage[lastCall.id].voters,
                 toString(proposalStorage[lastCall.id].owner))

\* C17: a created proposal has no updated_at; a successful voteYes, voteNo
\* or updateProposal leaves one on its proposal; an updated_at appears only
\* through such a call on that proposal and, once present, stays present for
\* as long as the proposal lives; a failed call changes no updated_at.
C17_UpdatedAtLifecycle ==
    [][/\ (lastCall'.op = "createProposal" /\ lastResult'.kind = "Ok")
          => lastResult'.value[1].updated_at = None
       /\ (lastCall'.op \in Mutations /\ lastResult'.kind = "Ok")
          => /\ lastCall'.id \in DOMAIN proposalStorage'
             /\ proposalStorage'[lastCall'.id].updated_at # None
       /\ \A k \in DOMAIN proposalStorage \ Replaced :
              /\ k \in DOMAIN proposalStorage'
              /\ proposalStorage[k].updated_at # None
                 => proposalStorage'[k].updated_at # None
              /\ (/\ proposalStorage[k].updated_at = None
                  /\ proposalStorage'[k].updated_at # None)
                 => /\ lastCall'.op \in Mutations
                    /\ lastCall'.id = k
                    /\ lastResult'.kind = "Ok"
       /\ lastResult'.kind = "Err"
          => \A k \in DOMAIN proposalStorage :
                 /\ k \in DOMAIN proposalStorage'
                 /\ proposalStorage'[k].updated_at = proposalStorage[k].updated_at]_vars

\* C17 witness: a vote left an updated_at on its proposal while the other
\* stored proposal, never voted on or edited, has none.
C17_Witness ==
    /\ lastCall.op = "voteNo"
    /\ lastResult.kind = "Ok"
    /\ Cardinality(DOMAIN proposalStorage) = 2
    /\ proposalStorage[lastCall.id].updated_at # None
    /\ \E k \in DOMAIN proposalStorage : proposalStorage[k].updated_at = None

VotersOf(vs, k) == {v[2] : v \in {w \in vs : w[1] = k}}

\* C19: yesVotes and noVotes of a stored proposal are never negative and
\* together never exceed the number of identities that have voted on it;
\* while the proposal lives neither decreases and a call raises their sum by
\* at most 1.
C19_CountersBounded ==
    [][/\ \A k \in DOMAIN proposalStorage' :
              /\ proposalStorage'[k].yesVotes >= 0
              /\ proposalStorage'[k].noVotes >= 0
              /\ proposalStorage'[k].yesVotes + proposalStorage'[k].noVotes
                     <= Cardinality(VotersOf(voted', k))
       /\ \A k \in DOMAIN proposalStorage \ Replaced :
              /\ k \in DOMAIN proposalStorage'
              /\ proposalStorage'[k].yesVotes >= proposalStorage[k].yesVotes
              /\ proposalStorage'[k].noVotes >= proposalStorage[k].noVotes
              /\ proposalStorage'[k].yesVotes + proposalStorage'[k].noVotes
                     <= proposalStorage[k].yesVotes + proposalStorage[k].noVotes + 1]_vars

====
